---- MODULE Spec2Model ----
(***************************************************************************)
(* Order intake and recycle bin of the Wickrama Hardware pickup system.    *)
(*                                                                         *)
(* The repository holds two versions of the server: the full one (orders,  *)
(* approvals, recycle bin, exports, auto cleanup; sequential order         *)
(* numbers WHS-NNN) and src/wickramaerp/server.js (orders and approvals    *)
(* only; date-coded order numbers WHS-<day><month>-<seq>).  The variable   *)
(* generator says which of the two the running program is: "sequential"    *)
(* for the full server, "dated" for the other (its generateOrderNumber and *)
(* its customer lookup).                                                   *)
(*                                                                         *)
(* Every request handler runs to completion on Node's single thread with   *)
(* synchronous file I/O, so a handler is one action; SpecSteps takes two   *)
(* handlers statement by statement, with requests waiting in queue and the *)
(* handlers begun in running, to show that.  Time is counted in whole      *)
(* days; every clock reading of one handler returns now.  The time of day  *)
(* (clock) moves only in the runs of the cleanup scheduler, where a day is *)
(* scaled down to a few minutes.  A JS object is a record whose domain is  *)
(* the set of properties it has; a JSON file holding an array is a         *)
(* sequence of such records.  A read of a store file that fails gives []   *)
(* (unreadable); a write that fails throws and leaves the file as it was   *)
(* (unwritable).                                                           *)
(***************************************************************************)
EXTENDS Integers, Sequences, FiniteSets, TLC

VARIABLES
    orders,           \* orders.json: the Order Store
    deletedOrders,    \* deleted_orders.json: the Recycle Bin Store
    auditLog,         \* audit_log.csv: the records after the header line
    exports,          \* exports/: a set of files [filename, data]
    now,              \* the wall clock, in days; now % 365 is the day of the year, 0 being 1 January
    exportsWritable,  \* whether a write into exports/ succeeds
    generator,        \* "sequential" or "dated": which of the two servers runs
    clock,            \* the wall clock's time of day, in minutes since midnight
    unwritable,       \* the store files whose write fails
    unreadable,       \* the store files whose read fails (unreadable, or not parseable)
    queue,            \* the requests that have arrived and wait for the event loop
    running,          \* the handlers begun and not yet returned: request, position, locals
    req,              \* the last request: operation, parameters, time (and the order a deletion found)
    res,              \* the response to it: HTTP status and JSON body
    io                \* the file writes of the last handler, in order

vars == <<orders, deletedOrders, auditLog, exports, now, exportsWritable,
          generator, clock, unwritable, unreadable, queue, running, req, res, io>>

----------------------------------------------------------------------------
(* Bounds of the model *)

\* the clock at process start, as a day of the year counted from 0 (303 is 31 October)
StartDay == 303
\* runs of creations only: audit records (orders) written, days elapsed
MaxAuditCreate == 4
MaxElapsedCreate == 3
\* runs of the full program: audit records written, days elapsed
MaxAudit == 3
MaxElapsed == 7
\* runs of creations and recycle bin requests: audit records written
MaxAuditBin == 5
\* runs of one order's life: audit records written, orders created, days elapsed
MaxAuditRestore == 4
MaxOrdersRestore == 1
MaxElapsedRestore == 1
\* runs of creations, approvals and status updates: audit records written
\* (in the longer runs too), orders created
MaxAuditApproval == 5
MaxAuditPromotion == 6
MaxOrdersApproval == 1
\* runs of creations, approvals and customer lookups: orders created, audit
\* records written
MaxOrdersLookup == 2
MaxAuditLookup == 3
\* runs of creations from request bodies that leave fields out: orders created
MaxOrdersValidation == 2
\* runs of handlers taken statement by statement: orders created, requests
\* arrived (as audit records written, requests waiting and handlers begun)
MaxOrdersSteps == 1
MaxAuditSteps == 3
\* runs with store files whose read may fail: audit records written
MaxAuditStorage == 3
\* runs of one order's life with every staff member approving: orders
\* created, audit records written
MaxOrdersHistory == 1
MaxAuditHistory == 5
\* runs with the cleanup scheduler: the day in minutes per hour and hours per
\* day, days elapsed, days elapsed at the last request, audit records written
MinutesPerHour == 2
HoursPerDay == 3
MaxElapsedPoll == 7
MaxElapsedRequests == 1
MaxAuditPoll == 3
\* runs with store files whose write may fail: orders in the Order Store,
\* audit records written
MaxOrdersWrites == 2
MaxAuditWrites == 4

(* Program constants *)

RetentionDays == 7
ApprovalsNeeded == 3
SequentialPad == 3
DatedPad == 2
MonthPad == 2
DaysPerYear == 365
CleanupHour == 2
CleanupMinute == 0

(* Inputs the requests are drawn from *)

Undefined == "<undefined>"
Null == "<null>"
Staff == {"staff1", "staff2", "staff3", "manager"}
MainStaff == {"staff1", "manager"}
CreateStaff == {"staff1"}
DeleteStaff == {Undefined, "staff1"}
StatusInputs == {"received", "packed", ""}
ApprovalStatusInputs == {"received", "packed"}
InvoiceInputs == {Undefined, "INV-7"}
UnknownOrderNumber == "WHS-000"
\* the q of a customer lookup: absent, blank, order numbers in either case and
\* of either scheme, phone fragments plain and formatted, a name, other digits
LookupQueries == {Undefined, " ", "whs-001", "WHS-002", "whs-3110-01", "1234567",
                  "077 123", "Jane", "999"}
\* clock steps of the full program's runs: both sides of the retention threshold
RetentionSteps == {RetentionDays - 1, RetentionDays}
DaySteps == {1}

----------------------------------------------------------------------------
(* JavaScript helpers *)

\* JS truthiness of a string, undefined or null
Truthy(v) == v \notin {Undefined, Null, ""}

\* a || b
OrElse(a, b) == IF Truthy(a) THEN a ELSE b

\* obj.f: undefined when the object has no such property
Get(obj, f) == IF f \in DOMAIN obj THEN obj[f] ELSE Undefined

\* `${v}` of a string or undefined
Template(v) == IF v = Undefined THEN "undefined" ELSE v

\* String.prototype.padStart(n, '0')
RECURSIVE PadStart(_, _)
PadStart(s, n) == IF Len(s) >= n THEN s ELSE PadStart("0" \o s, n)

\* String.prototype.startsWith
StartsWith(s, prefix) ==
    /\ Len(s) >= Len(prefix)
    /\ SubSeq(s, 1, Len(prefix)) = prefix

\* the i-th character of a string
CharAt(s, i) == SubSeq(s, i, i)

Digits == {"0", "1", "2", "3", "4", "5", "6", "7", "8", "9"}

UpperCase == <<"A", "B", "C", "D", "E", "F", "G", "H", "I", "J", "K", "L", "M",
               "N", "O", "P", "Q", "R", "S", "T", "U", "V", "W", "X", "Y", "Z">>

LowerCase == <<"a", "b", "c", "d", "e", "f", "g", "h", "i", "j", "k", "l", "m",
               "n", "o", "p", "q", "r", "s", "t", "u", "v", "w", "x", "y", "z">>

LowerChar(c) ==
    IF \E k \in 1..Len(UpperCase) : UpperCase[k] = c
    THEN LowerCase[CHOOSE k \in 1..Len(UpperCase) : UpperCase[k] = c]
    ELSE c

\* String.prototype.toLowerCase
RECURSIVE ToLowerCase(_)
ToLowerCase(s) ==
    IF Len(s) = 0 THEN ""
    ELSE LowerChar(CharAt(s, 1)) \o ToLowerCase(SubSeq(s, 2, Len(s)))

\* String.prototype.includes: every string includes the empty string
Includes(s, q) ==
    \E i \in 0..(Len(s) - Len(q)) : SubSeq(s, i + 1, i + Len(q)) = q

\* String.prototype.replace(/\D/g, ''): the digits of the string
RECURSIVE StripNonDigits(_)
StripNonDigits(s) ==
    IF Len(s) = 0 THEN ""
    ELSE (IF CharAt(s, 1) \in Digits THEN CharAt(s, 1) ELSE "")
         \o StripNonDigits(SubSeq(s, 2, Len(s)))

\* String.prototype.trim, for blanks
RECURSIVE Trim(_)
Trim(s) ==
    IF Len(s) = 0 THEN ""
    ELSE IF CharAt(s, 1) = " " THEN Trim(SubSeq(s, 2, Len(s)))
    ELSE IF CharAt(s, Len(s)) = " " THEN Trim(SubSeq(s, 1, Len(s) - 1))
    ELSE s

\* Array.prototype.findIndex(o => o.order_number === n); 0 stands for JS's -1
FindIndex(list, n) ==
    IF \E i \in 1..Len(list) : list[i].order_number = n
    THEN CHOOSE i \in 1..Len(list) :
            /\ list[i].order_number = n
            /\ \A j \in 1..(i - 1) : list[j].order_number # n
    ELSE 0

\* Array.prototype.splice(i, 1): the list without its i-th element
Splice(list, i) == SubSeq(list, 1, i - 1) \o SubSeq(list, i + 1, Len(list))

\* Array.prototype.filter(...).length
RECURSIVE CountWhere(_, _)
CountWhere(list, prefix) ==
    IF list = <<>> THEN 0
    ELSE (IF StartsWith(Head(list).order_number, prefix) THEN 1 ELSE 0)
         + CountWhere(Tail(list), prefix)

\* Date: month (1..12) and day of month of a day of the year counted from 0
MonthLengths == <<31, 28, 31, 30, 31, 30, 31, 31, 30, 31, 30, 31>>

RECURSIVE DateFrom(_, _)
DateFrom(d, m) ==
    IF d < MonthLengths[m] THEN [month |-> m, day |-> d + 1]
    ELSE DateFrom(d - MonthLengths[m], m + 1)

Today == DateFrom(now % DaysPerYear, 1)

----------------------------------------------------------------------------
(* Reads of the store files *)

OrdersFile == "orders.json"
DeletedOrdersFile == "deleted_orders.json"

\* getOrders, getDeletedOrders: the array of the file, or [] when the read or
\* the parse throws
GetOrders == IF OrdersFile \in unreadable THEN <<>> ELSE orders

GetDeletedOrders == IF DeletedOrdersFile \in unreadable THEN <<>> ELSE deletedOrders

\* saveOrders, saveDeletedOrders: fs.writeFileSync of the file returns; when it
\* throws, the file holds what it held
CanWrite(file) == file \notin unwritable

----------------------------------------------------------------------------
(* Order numbers *)

\* the prefix today's order numbers are counted by
WrongTodayCode(dateCode) == "WRH-" \o dateCode

TodayCode(dateCode) == "WHS-" \o dateCode

\* a sequence counted from the store's length, without the + 1
GenerateFromZero ==
    LET sequence == Len(GetOrders)
        paddedSequence == PadStart(ToString(sequence), SequentialPad)
    IN  "WHS-" \o paddedSequence

GenerateSequential ==
    LET sequence == Len(GetOrders) + 1
        paddedSequence == PadStart(ToString(sequence), SequentialPad)
    IN  "WHS-" \o paddedSequence

GenerateDated ==
    LET day == Today.day
        month == Today.month
        dateCode == ToString(day) \o PadStart(ToString(month), MonthPad)
        todayCode == TodayCode(dateCode)
        todayOrders == CountWhere(GetOrders, todayCode)
        sequence == PadStart(ToString(todayOrders + 1), DatedPad)
    IN  "WHS-" \o dateCode \o "-" \o sequence

GenerateOrderNumber ==
    IF generator = "sequential" THEN GenerateSequential ELSE GenerateDated

----------------------------------------------------------------------------
(* Files *)

\* logAudit: one line appended to audit_log.csv
AuditEntry(action, orderId, staffName, details) ==
    [timestamp |-> now, action |-> action, order_id |-> orderId,
     staff_name |-> staffName, details |-> details]

\* a write of the file that replaces what it held by the new line
LogAuditOverwrite(log, action, orderId, staffName, details) ==
    <<AuditEntry(action, orderId, staffName, details)>>

LogAudit(log, action, orderId, staffName, details) ==
    Append(log, AuditEntry(action, orderId, staffName, details))

\* the writes a handler makes, as recorded in io
Wrote(call, key, ok) == [call |-> call, key |-> key, ok |-> ok]

\* the response when a handler without a try block throws: Express answers 500
ServerError == [status |-> 500, body |-> [error |-> "Internal Server Error"]]

\* a handler that ends with status 500 because a write threw: the writes made
\* until then are in io, no audit record is written; what the stores hold is
\* said where the handler is
Failed(op, orderNumber, body, response, writes) ==
    /\ req' = [op |-> op, at |-> now, orderNumber |-> orderNumber, body |-> body]
    /\ res' = [status |-> 500, body |-> response]
    /\ io' = writes
    /\ UNCHANGED <<auditLog, now, exportsWritable, generator, clock, unwritable,
                   unreadable, queue, running>>

\* JSON.stringify of an object: a property whose value is undefined is left out
\* (the properties a request body fills are the ones that can be undefined)
RequestFilled == {"customer_name", "customer_phone", "items", "payment_method",
                  "created_by", "staff"}

Json(obj) ==
    [f \in {g \in DOMAIN obj : g \in RequestFilled => obj[g] # Undefined} |-> obj[f]]

\* the order as saveOrders writes it and getOrders reads it back
JsonOrder(order) ==
    Json([order EXCEPT !.status_history = [k \in 1..Len(@) |-> Json(@[k])]])

\* no handler on the call stack
Idle == <<>>

----------------------------------------------------------------------------
(* Initial state: initializeFiles on a fresh directory *)

InitFiles ==
    /\ orders = <<>>
    /\ deletedOrders = <<>>
    /\ auditLog = <<>>
    /\ exports = {}
    /\ now = StartDay
    /\ exportsWritable = TRUE
    /\ clock = 0
    /\ unwritable = {}
    /\ unreadable = {}
    /\ queue = <<>>
    /\ running = Idle
    /\ req = [op |-> "start", at |-> StartDay]
    /\ res = [status |-> 0]
    /\ io = <<>>

Init == InitFiles /\ generator = "sequential"

InitCreate == InitFiles /\ generator \in {"sequential", "dated"}

----------------------------------------------------------------------------
(* POST /api/orders *)

NewOrder(orderNumber, customerName, customerPhone, items, paymentMethod, staffName) ==
    [order_number |-> orderNumber,
     customer_name |-> customerName,
     customer_phone |-> customerPhone,
     items |-> items,
     payment_method |-> paymentMethod,
     invoice_number |-> "",
     status |-> "received",
     created_at |-> now,
     created_by |-> staffName,
     approvals |-> <<>>,
     status_history |-> <<[status |-> "received", timestamp |-> now, staff |-> staffName]>>]

CreateOrder(customerName, customerPhone, items, paymentMethod, staffName) ==
    LET orderNumber == GenerateOrderNumber
        newOrder == NewOrder(orderNumber, customerName, customerPhone, items,
                             paymentMethod, staffName)
        written == CanWrite(OrdersFile)
    IN  /\ orders' = IF written THEN Append(GetOrders, JsonOrder(newOrder)) ELSE orders
        /\ auditLog' = IF written
                       THEN LogAudit(auditLog, "ORDER_CREATED", orderNumber,
                                     Template(staffName),
                                     "Customer: " \o Template(customerName))
                       ELSE auditLog
        /\ req' = [op |-> "createOrder", at |-> now,
                   body |-> [customerName |-> customerName, customerPhone |-> customerPhone,
                             items |-> items, paymentMethod |-> paymentMethod,
                             staffName |-> staffName]]
        /\ res' = IF written
                  THEN [status |-> 200,
                        body |-> [success |-> TRUE, order_number |-> orderNumber]]
                  ELSE ServerError
        /\ io' = IF written
                 THEN <<Wrote("saveOrders", orderNumber, TRUE),
                        Wrote("logAudit", orderNumber, TRUE)>>
                 ELSE <<Wrote("saveOrders", orderNumber, FALSE)>>
        /\ UNCHANGED <<deletedOrders, exports, now, exportsWritable,
                   generator, clock, unwritable, unreadable, queue, running>>

\* the passage of time
Tick(d) ==
    /\ now' = now + d
    /\ UNCHANGED <<orders, deletedOrders, auditLog, exports, exportsWritable,
                   generator, clock, unwritable, unreadable, queue, running, req, res, io>>

----------------------------------------------------------------------------
(* PUT /api/orders/:orderNumber/status *)

\* a not-found return that logs the failed request, as the customer lookup does
NotFoundLogged(op, orderNumber, body, response) ==
    /\ req' = [op |-> op, at |-> now, orderNumber |-> orderNumber, body |-> body]
    /\ res' = [status |-> 404, body |-> response]
    /\ io' = <<[call |-> "logAudit", key |-> orderNumber, ok |-> TRUE]>>
    /\ auditLog' = Append(auditLog, [timestamp |-> now, action |-> "REQUEST_FAILED",
                                     order_id |-> orderNumber, staff_name |-> "N/A",
                                     details |-> "Order not found"])
    /\ UNCHANGED <<orders, deletedOrders, exports, now, exportsWritable,
                   generator, clock, unwritable, unreadable, queue, running>>

\* return res.status(404).json(...): nothing read is written back
NotFound(op, orderNumber, body, response) ==
    /\ req' = [op |-> op, at |-> now, orderNumber |-> orderNumber, body |-> body]
    /\ res' = [status |-> 404, body |-> response]
    /\ io' = <<>>
    /\ UNCHANGED <<orders, deletedOrders, auditLog, exports, now, exportsWritable,
                   generator, clock, unwritable, unreadable, queue, running>>

HistoryEntry(status, staffName) ==
    [status |-> status, timestamp |-> now, staff |-> staffName]

\* an update that takes an absent invoice number for an empty one
SetStatusClearsInvoice(order, status, staffName, invoiceNumber) ==
    [order EXCEPT
        !.status = status,
        !.invoice_number = OrElse(invoiceNumber, ""),
        !.status_history = Append(@, HistoryEntry(status, staffName))]

SetStatus(order, status, staffName, invoiceNumber) ==
    [order EXCEPT
        !.status = status,
        !.invoice_number = IF Truthy(invoiceNumber) THEN invoiceNumber ELSE @,
        !.status_history = Append(@, HistoryEntry(status, staffName))]

UpdateStatus(orderNumber, status, staffName, invoiceNumber) ==
    LET read == GetOrders
        orderIndex == FindIndex(read, orderNumber)
        body == [status |-> status, staffName |-> staffName, invoiceNumber |-> invoiceNumber]
    IN  IF orderIndex = 0
        THEN NotFound("updateStatus", orderNumber, body, [error |-> "Order not found"])
        ELSE IF ~CanWrite(OrdersFile)
        THEN /\ Failed("updateStatus", orderNumber, body, ServerError.body,
                       <<Wrote("saveOrders", orderNumber, FALSE)>>)
             /\ UNCHANGED <<orders, deletedOrders, exports>>
        ELSE LET order == SetStatus(read[orderIndex], status, staffName, invoiceNumber)
             IN  /\ orders' = [read EXCEPT ![orderIndex] = order]
                 /\ auditLog' = LogAudit(auditLog, "STATUS_UPDATE", orderNumber, staffName,
                                         "Status: " \o status)
                 /\ req' = [op |-> "updateStatus", at |-> now, orderNumber |-> orderNumber,
                            body |-> body]
                 /\ res' = [status |-> 200, body |-> [success |-> TRUE]]
                 /\ io' = <<Wrote("saveOrders", orderNumber, TRUE),
                            Wrote("logAudit", orderNumber, TRUE)>>
                 /\ UNCHANGED <<deletedOrders, exports, now, exportsWritable,
                   generator, clock, unwritable, unreadable, queue, running>>

----------------------------------------------------------------------------
(* PUT /api/orders/:orderNumber/approve *)

\* a check of the latest approval only
AlreadyApprovedLast(order, staffName) ==
    /\ order.approvals # <<>>
    /\ order.approvals[Len(order.approvals)].staff = staffName

\* order.approvals.find(a => a.staff === staffName)
AlreadyApproved(order, staffName) ==
    \E i \in 1..Len(order.approvals) : order.approvals[i].staff = staffName

\* the auto-update of the status once the approvals are reached
PromotesAt(count, status) == count >= ApprovalsNeeded /\ status = "received"

\* a promotion that starts the status history afresh
ApproveRewritesHistory(order, staffName) ==
    LET approved == [order EXCEPT
                        !.approvals = Append(@, [staff |-> staffName, timestamp |-> now])]
    IN  IF PromotesAt(Len(approved.approvals), approved.status)
        THEN [approved EXCEPT
                 !.status = "approved",
                 !.status_history = <<HistoryEntry("approved", "SYSTEM")>>]
        ELSE approved

Approve(order, staffName) ==
    LET approved == [order EXCEPT
                        !.approvals = Append(@, [staff |-> staffName, timestamp |-> now])]
    IN  IF PromotesAt(Len(approved.approvals), approved.status)
        THEN [approved EXCEPT
                 !.status = "approved",
                 !.status_history = Append(@, HistoryEntry("approved", "SYSTEM"))]
        ELSE approved

AddApproval(orderNumber, staffName) ==
    LET read == GetOrders
        orderIndex == FindIndex(read, orderNumber)
        body == [staffName |-> staffName]
    IN  IF orderIndex = 0
        THEN NotFound("addApproval", orderNumber, body, [error |-> "Order not found"])
        ELSE IF AlreadyApproved(read[orderIndex], staffName)
        THEN /\ req' = [op |-> "addApproval", at |-> now, orderNumber |-> orderNumber,
                        body |-> body]
             /\ res' = [status |-> 400,
                        body |-> [error |-> "Staff member already approved this order"]]
             /\ io' = <<>>
             /\ UNCHANGED <<orders, deletedOrders, auditLog, exports, now,
                            exportsWritable,
                   generator, clock, unwritable, unreadable, queue, running>>
        ELSE IF ~CanWrite(OrdersFile)
        THEN /\ Failed("addApproval", orderNumber, body, ServerError.body,
                       <<Wrote("saveOrders", orderNumber, FALSE)>>)
             /\ UNCHANGED <<orders, deletedOrders, exports>>
        ELSE LET order == Approve(read[orderIndex], staffName)
             IN  /\ orders' = [read EXCEPT ![orderIndex] = order]
                 /\ auditLog' = LogAudit(auditLog, "APPROVAL_ADDED", orderNumber, staffName,
                                         "Approval " \o ToString(Len(order.approvals)) \o "/3")
                 /\ req' = [op |-> "addApproval", at |-> now, orderNumber |-> orderNumber,
                            body |-> body]
                 /\ res' = [status |-> 200,
                            body |-> [success |-> TRUE, approvals |-> Len(order.approvals)]]
                 /\ io' = <<Wrote("saveOrders", orderNumber, TRUE),
                            Wrote("logAudit", orderNumber, TRUE)>>
                 /\ UNCHANGED <<deletedOrders, exports, now, exportsWritable,
                   generator, clock, unwritable, unreadable, queue, running>>

----------------------------------------------------------------------------
(* DELETE /api/orders/:orderNumber: the move to the recycle bin *)

DeletionFields == {"deleted_at", "deleted_by", "original_status"}

\* the deletion metadata added to the order, and its status set to 'deleted'
MarkDeleted(order, staffName) ==
    [f \in DOMAIN order \cup DeletionFields |->
        CASE f = "deleted_at" -> now
          [] f = "deleted_by" -> OrElse(staffName, "manager")
          [] f = "original_status" -> order.status
          [] f = "status" -> "deleted"
          [] OTHER -> order[f]]

SoftDelete(orderNumber, staffName) ==
    LET read == GetOrders
        orderIndex == FindIndex(read, orderNumber)
        body == [staffName |-> staffName]
    IN  IF orderIndex = 0
        THEN NotFound("softDelete", orderNumber, body,
                      [success |-> FALSE, error |-> "Order not found"])
        ELSE LET orderToDelete == MarkDeleted(read[orderIndex], staffName)
                 bin == Append(GetDeletedOrders, orderToDelete)
                 response == [success |-> FALSE,
                              error |-> "Server error while moving order to recycle bin"]
             IN  IF ~CanWrite(OrdersFile)
                 THEN /\ Failed("softDelete", orderNumber, body, response,
                                <<Wrote("saveOrders", orderNumber, FALSE)>>)
                      /\ UNCHANGED <<orders, deletedOrders, exports>>
                 ELSE IF ~CanWrite(DeletedOrdersFile)
                 THEN /\ Failed("softDelete", orderNumber, body, response,
                                <<Wrote("saveOrders", orderNumber, TRUE),
                                  Wrote("saveDeletedOrders", orderNumber, FALSE)>>)
                      /\ orders' = Splice(read, orderIndex)
                      /\ UNCHANGED <<deletedOrders, exports>>
                 ELSE
                 /\ orders' = Splice(read, orderIndex)
                 /\ deletedOrders' = bin
                 /\ auditLog' = LogAudit(auditLog, "ORDER_MOVED_TO_RECYCLE", orderNumber,
                                         OrElse(staffName, "manager"),
                                         "Order moved to recycle bin: "
                                            \o Template(Get(orderToDelete, "customer_name")))
                 /\ req' = [op |-> "softDelete", at |-> now, orderNumber |-> orderNumber,
                            body |-> body, found |-> read[orderIndex]]
                 /\ res' = [status |-> 200,
                            body |-> [success |-> TRUE, recycleBinCount |-> Len(bin)]]
                 /\ io' = <<Wrote("saveOrders", orderNumber, TRUE),
                            Wrote("saveDeletedOrders", orderNumber, TRUE),
                            Wrote("logAudit", orderNumber, TRUE)>>
                 /\ UNCHANGED <<exports, now, exportsWritable,
                   generator, clock, unwritable, unreadable, queue, running>>

----------------------------------------------------------------------------
(* POST /api/orders/:orderNumber/restore *)

\* the status the restored order gets
RestoredStatus(order) == OrElse(order.original_status, "received")

\* the saved status put back and the deletion metadata deleted
Unmark(order) ==
    [f \in DOMAIN order \ DeletionFields |->
        IF f = "status" THEN RestoredStatus(order) ELSE order[f]]

Restore(orderNumber, staffName) ==
    LET bin == GetDeletedOrders
        orderIndex == FindIndex(bin, orderNumber)
        body == [staffName |-> staffName]
    IN  IF orderIndex = 0
        THEN NotFound("restore", orderNumber, body,
                      [success |-> FALSE, error |-> "Order not found in recycle bin"])
        ELSE LET orderToRestore == Unmark(bin[orderIndex])
                 response == [success |-> FALSE, error |-> "Error restoring order"]
             IN  IF ~CanWrite(OrdersFile)
                 THEN /\ Failed("restore", orderNumber, body, response,
                                <<Wrote("saveOrders", orderNumber, FALSE)>>)
                      /\ UNCHANGED <<orders, deletedOrders, exports>>
                 ELSE IF ~CanWrite(DeletedOrdersFile)
                 THEN /\ Failed("restore", orderNumber, body, response,
                                <<Wrote("saveOrders", orderNumber, TRUE),
                                  Wrote("saveDeletedOrders", orderNumber, FALSE)>>)
                      /\ orders' = Append(GetOrders, orderToRestore)
                      /\ UNCHANGED <<deletedOrders, exports>>
                 ELSE
                 /\ orders' = Append(GetOrders, orderToRestore)
                 /\ deletedOrders' = Splice(bin, orderIndex)
                 /\ auditLog' = LogAudit(auditLog, "ORDER_RESTORED", orderNumber,
                                         OrElse(staffName, "manager"),
                                         "Order restored from recycle bin: "
                                            \o Template(Get(orderToRestore, "customer_name")))
                 /\ req' = [op |-> "restore", at |-> now, orderNumber |-> orderNumber,
                            body |-> body]
                 /\ res' = [status |-> 200, body |-> [success |-> TRUE]]
                 /\ io' = <<Wrote("saveOrders", orderNumber, TRUE),
                            Wrote("saveDeletedOrders", orderNumber, TRUE),
                            Wrote("logAudit", orderNumber, TRUE)>>
                 /\ UNCHANGED <<exports, now, exportsWritable,
                   generator, clock, unwritable, unreadable, queue, running>>

----------------------------------------------------------------------------
(* exportOrderData *)

ExportFilename(order) ==
    "order-" \o order.order_number \o "-" \o ToString(now) \o ".json"

ExportData(order) ==
    [f \in DOMAIN order \cup {"exported_at", "export_reason"} |->
        CASE f = "exported_at" -> now
          [] f = "export_reason" -> "permanent_deletion"
          [] OTHER -> order[f]]

\* fs.writeFileSync into a directory: a file of the same name is replaced
WriteFile(dir, filename, data) ==
    {f \in dir : f.filename # filename} \cup {[filename |-> filename, data |-> data]}

\* an export that returns the filename although the write threw
ExportOrderDataUncaught(dir, order) ==
    [filename |-> ExportFilename(order),
     dir |-> IF exportsWritable
             THEN WriteFile(dir, ExportFilename(order), ExportData(order))
             ELSE dir]

\* the filename returned (null when the write throws) and the directory afterwards
ExportOrderData(dir, order) ==
    IF exportsWritable
    THEN [filename |-> ExportFilename(order),
          dir |-> WriteFile(dir, ExportFilename(order), ExportData(order))]
    ELSE [filename |-> Null, dir |-> dir]

----------------------------------------------------------------------------
(* DELETE /api/deleted-orders/:orderNumber *)

\* the writes of a permanent deletion, in the order the handler makes them
PermanentDeleteWrites(orderNumber, exportFilename) ==
    <<Wrote("exportOrderData", orderNumber, exportFilename # Null),
      Wrote("saveDeletedOrders", orderNumber, TRUE),
      Wrote("logAudit", orderNumber, TRUE)>>

PermanentlyDelete(orderNumber, staffName) ==
    LET bin == GetDeletedOrders
        orderIndex == FindIndex(bin, orderNumber)
        body == [staffName |-> staffName]
    IN  IF orderIndex = 0
        THEN NotFound("permanentlyDelete", orderNumber, body,
                      [success |-> FALSE, error |-> "Order not found in recycle bin"])
        ELSE LET exported == ExportOrderData(exports, bin[orderIndex])
                 exportFilename == exported.filename
             IN  IF ~CanWrite(DeletedOrdersFile)
                 THEN /\ Failed("permanentlyDelete", orderNumber, body,
                                [success |-> FALSE,
                                 error |-> "Error permanently deleting order"],
                                <<Wrote("exportOrderData", orderNumber,
                                        exportFilename # Null),
                                  Wrote("saveDeletedOrders", orderNumber, FALSE)>>)
                      /\ exports' = exported.dir
                      /\ UNCHANGED <<orders, deletedOrders>>
                 ELSE
                 /\ exports' = exported.dir
                 /\ deletedOrders' = Splice(bin, orderIndex)
                 /\ auditLog' = LogAudit(auditLog, "ORDER_PERMANENTLY_DELETED", orderNumber,
                                         OrElse(staffName, "manager"),
                                         "Order permanently deleted. Exported to: "
                                            \o OrElse(exportFilename, "export failed"))
                 /\ req' = [op |-> "permanentlyDelete", at |-> now,
                            orderNumber |-> orderNumber, body |-> body]
                 /\ res' = [status |-> 200,
                            body |-> [success |-> TRUE, exportedTo |-> exportFilename]]
                 /\ io' = PermanentDeleteWrites(orderNumber, exportFilename)
                 /\ UNCHANGED <<orders, now, exportsWritable,
                   generator, clock, unwritable, unreadable, queue, running>>

----------------------------------------------------------------------------
(* autoCleanupDeletedOrders *)

\* sevenDaysAgo.setDate(sevenDaysAgo.getDate() - 7)
SevenDaysAgo == now - RetentionDays

\* a comparison that keeps the entry deleted exactly seven days ago
KeepsInclusive(deletedAt, sevenDaysAgo) == deletedAt >= sevenDaysAgo

\* deletedAt > sevenDaysAgo: the entry stays in the bin
Keeps(deletedAt, sevenDaysAgo) == deletedAt > sevenDaysAgo

\* a rewrite of the bin only when more than one entry was cleaned
SavesBinOffByOne(cleanedCount) == cleanedCount > 1

\* if (cleanedCount > 0): the bin is rewritten with the kept entries
SavesBin(cleanedCount) == cleanedCount > 0

\* deletedOrders.forEach(...): acc holds toKeep, cleanedCount, the audit log,
\* the exports directory and the writes made so far
RECURSIVE CleanupLoop(_, _)
CleanupLoop(rest, acc) ==
    IF rest = <<>> THEN acc
    ELSE LET order == Head(rest)
         IN  IF Keeps(order.deleted_at, SevenDaysAgo)
             THEN CleanupLoop(Tail(rest), [acc EXCEPT !.toKeep = Append(@, order)])
             ELSE LET exported == ExportOrderData(acc.dir, order)
                  IN  CleanupLoop(Tail(rest),
                         [acc EXCEPT
                            !.dir = exported.dir,
                            !.cleanedCount = @ + 1,
                            !.log = LogAudit(@, "AUTO_CLEANUP", order.order_number,
                                             "SYSTEM", "7-day auto cleanup"),
                            !.io = @ \o <<Wrote("exportOrderData", order.order_number,
                                                exported.filename # Null),
                                          Wrote("logAudit", order.order_number, TRUE)>>])

\* autoCleanupDeletedOrders(): what the call does to the files
AutoCleanupDeletedOrders ==
    LET done == CleanupLoop(GetDeletedOrders,
                            [toKeep |-> <<>>, cleanedCount |-> 0, log |-> auditLog,
                             dir |-> exports, io |-> <<>>])
    IN  /\ deletedOrders' = IF SavesBin(done.cleanedCount) /\ CanWrite(DeletedOrdersFile)
                            THEN done.toKeep
                            ELSE deletedOrders
        /\ auditLog' = done.log
        /\ exports' = done.dir
        /\ req' = [op |-> "autoCleanup", at |-> now]
        /\ io' = IF SavesBin(done.cleanedCount)
                 THEN done.io \o <<Wrote("saveDeletedOrders", "",
                                         CanWrite(DeletedOrdersFile))>>
                 ELSE done.io

\* a call of it, whatever the time of day
AutoCleanup ==
    /\ AutoCleanupDeletedOrders
    /\ UNCHANGED <<orders, now, exportsWritable, generator, clock, unwritable,
                   unreadable, queue, running, res>>

\* the read of a store file starts to fail (the file is unreadable, or what it
\* holds does not parse) or succeeds again
SetUnreadable(file, b) ==
    /\ (file \in unreadable) # b
    /\ unreadable' = IF b THEN unreadable \cup {file} ELSE unreadable \ {file}
    /\ UNCHANGED <<orders, deletedOrders, auditLog, exports, now, exportsWritable,
                   generator, clock, unwritable, queue, running, req, res, io>>

\* the write of a store file starts to fail (read-only, no permission, no
\* space) or succeeds again
SetUnwritable(file, b) ==
    /\ (file \in unwritable) # b
    /\ unwritable' = IF b THEN unwritable \cup {file} ELSE unwritable \ {file}
    /\ UNCHANGED <<orders, deletedOrders, auditLog, exports, now, exportsWritable,
                   generator, clock, unreadable, queue, running, req, res, io>>

\* the exports directory becomes unwritable (removed, read-only, disk full) or writable again
SetExportsWritable(b) ==
    /\ exportsWritable # b
    /\ exportsWritable' = b
    /\ UNCHANGED <<orders, deletedOrders, auditLog, exports, now,
                   generator, clock, unwritable, unreadable, queue, running, req, res, io>>

----------------------------------------------------------------------------
(* setInterval(() => { ... }, 60000): the poll of the cleanup scheduler *)

MinutesPerDay == HoursPerDay * MinutesPerHour

\* now.getHours(), now.getMinutes() of a time of day
GetHours(time) == time \div MinutesPerHour

GetMinutes(time) == time % MinutesPerHour

\* an hour getHours never returns
IsHourAfterLast(hours, minutes) == hours = HoursPerDay /\ minutes = CleanupMinute

\* now.getHours() === 2 && now.getMinutes() === 0
IsCleanupTime(hours, minutes) == hours = CleanupHour /\ minutes = CleanupMinute

\* how many minutes after it is due the callback of the timer runs: a timer
\* callback runs no earlier than its delay, and later when the event loop is
\* busy, so that a minute of the clock may pass without a poll
Lateness == {0, 1}

\* the days of the wall clock; the days after the last are not told apart
NextDay == IF now < StartDay + MaxElapsedPoll THEN now + 1 ELSE now

\* the callback of the interval timer, late minutes after the minute that
\* follows the previous one: it reads the clock and calls the cleanup when
\* the time is 2:00
Poll(late) ==
    LET time == (clock + 1 + late) % MinutesPerDay
        midnight == clock + 1 + late >= MinutesPerDay
    IN  /\ clock' = time
        /\ now' = IF midnight THEN NextDay ELSE now
        /\ IF IsCleanupTime(GetHours(time), GetMinutes(time))
           THEN /\ ~midnight
                /\ AutoCleanupDeletedOrders
                /\ UNCHANGED <<orders, exportsWritable, generator, unwritable,
                               unreadable, queue, running, res>>
           ELSE UNCHANGED <<orders, deletedOrders, auditLog, exports, exportsWritable,
                            generator, unwritable, unreadable, queue, running,
                            req, res, io>>

----------------------------------------------------------------------------
(* GET /api/orders, GET /api/orders/:orderNumber, GET /api/search *)

ListOrders == [status |-> 200, body |-> GetOrders]

GetOrder(orderNumber) ==
    LET read == GetOrders
        i == FindIndex(read, orderNumber)
    IN  IF i = 0
        THEN [status |-> 404, body |-> [error |-> "Order not found"]]
        ELSE [status |-> 200, body |-> read[i]]

\* the filter of the search by q
SearchMatches(order, q) ==
    \/ Includes(ToLowerCase(order.customer_name), ToLowerCase(q))
    \/ Includes(ToLowerCase(order.order_number), ToLowerCase(q))
    \/ Includes(order.customer_phone, q)

\* the filter reads a property of undefined: a TypeError
SearchThrows(order, q) ==
    \/ "customer_name" \notin DOMAIN order
    \/ /\ ~Includes(ToLowerCase(order.customer_name), ToLowerCase(q))
       /\ ~Includes(ToLowerCase(order.order_number), ToLowerCase(q))
       /\ "customer_phone" \notin DOMAIN order

SearchOrders(q, status) ==
    LET read == GetOrders
        byQuery == IF Truthy(q)
                   THEN SelectSeq(read, LAMBDA order : SearchMatches(order, q))
                   ELSE read
        byStatus == IF Truthy(status) /\ status # "all"
                    THEN SelectSeq(byQuery, LAMBDA order : order.status = status)
                    ELSE byQuery
    IN  IF Truthy(q) /\ \E i \in 1..Len(read) : SearchThrows(read[i], q)
        THEN ServerError
        ELSE [status |-> 200, body |-> byStatus]

----------------------------------------------------------------------------
(* GET /api/customer-lookup *)

\* the test of orders.find in the full server
LookupMatches(order, query) ==
    \/ ToLowerCase(order.order_number) = ToLowerCase(query)
    \/ Includes(order.customer_phone, query)
    \/ Includes(StripNonDigits(order.customer_phone), StripNonDigits(query))

\* the test of orders.find in src/wickramaerp/server.js
LookupMatchesBasic(order, q) ==
    \/ ToLowerCase(order.order_number) = ToLowerCase(q)
    \/ Includes(order.customer_phone, q)

\* the test reads a property of undefined: a TypeError
LookupThrows(order, query) ==
    \/ query = Undefined
    \/ /\ ToLowerCase(order.order_number) # ToLowerCase(query)
       /\ "customer_phone" \notin DOMAIN order

\* orders.find from place i on: the place of the first match, 0 for undefined,
\* -1 when the test throws before a match
RECURSIVE FindMatch(_, _, _)
FindMatch(list, query, i) ==
    IF i > Len(list) THEN 0
    ELSE IF LookupThrows(list[i], query) THEN -1
    ELSE IF (IF generator = "sequential"
             THEN LookupMatches(list[i], query)
             ELSE LookupMatchesBasic(list[i], query)) THEN i
    ELSE FindMatch(list, query, i + 1)

ViewFields == {"order_number", "customer_name", "customer_phone", "status",
               "payment_method", "invoice_number", "created_at", "items",
               "approvals", "status_history"}

ViewFieldsBasic == {"order_number", "status", "invoice_number", "payment_method",
                    "created_at"}

\* the order object of the response, as res.json serializes it
OrderView(order) ==
    [f \in (ViewFields \cap DOMAIN order) \cup {"approvals", "status_history"} |->
        IF f \in DOMAIN order THEN order[f] ELSE <<>>]

OrderViewBasic(order) == [f \in ViewFieldsBasic \cap DOMAIN order |-> order[f]]

\* the lookup of the full server: the response, the audit lines appended and
\* the place of matchedOrder in the array read
LookupFull(q) ==
    LET query == IF q = Undefined THEN Undefined ELSE Trim(q)
        read == GetOrders
        i == FindMatch(read, query, 1)
    IN  IF ~Truthy(query)
        THEN [res |-> [status |-> 200,
                       body |-> [found |-> FALSE,
                                 message |-> "Please provide a search query"]],
              log |-> <<>>, matched |-> 0]
        ELSE IF i = -1
        THEN [res |-> [status |-> 500,
                       body |-> [found |-> FALSE,
                                 message |-> "System error. Please try again later."]],
              log |-> <<>>, matched |-> 0]
        ELSE IF i = 0
        THEN [res |-> [status |-> 200,
                       body |-> [found |-> FALSE,
                                 message |-> "Order not found. Please check your order number or phone number."]],
              log |-> <<AuditEntry("CUSTOMER_LOOKUP_FAILED", "N/A", "CUSTOMER",
                                   "Failed lookup for: " \o query)>>,
              matched |-> 0]
        ELSE [res |-> [status |-> 200,
                       body |-> [found |-> TRUE, order |-> OrderView(read[i])]],
              log |-> <<AuditEntry("CUSTOMER_LOOKUP_SUCCESS", read[i].order_number,
                                   "CUSTOMER", "Successful lookup: " \o query)>>,
              matched |-> i]

\* the lookup of src/wickramaerp/server.js
LookupBasic(q) ==
    LET read == GetOrders
        i == FindMatch(read, q, 1)
    IN  IF i = -1
        THEN [res |-> ServerError, log |-> <<>>, matched |-> 0]
        ELSE IF i = 0
        THEN [res |-> [status |-> 200, body |-> [found |-> FALSE]],
              log |-> <<>>, matched |-> 0]
        ELSE [res |-> [status |-> 200,
                       body |-> [found |-> TRUE, order |-> OrderViewBasic(read[i])]],
              log |-> <<>>, matched |-> i]

Lookup(q) == IF generator = "sequential" THEN LookupFull(q) ELSE LookupBasic(q)

CustomerLookup(q) ==
    LET done == Lookup(q)
    IN  /\ auditLog' = auditLog \o done.log
        /\ req' = [op |-> "customerLookup", at |-> now, q |-> q]
        /\ res' = done.res
        /\ io' = [k \in 1..Len(done.log) |-> Wrote("logAudit", done.log[k].order_id, TRUE)]
        /\ UNCHANGED <<orders, deletedOrders, exports, now, exportsWritable,
                       generator, clock, unwritable, unreadable, queue, running>>

----------------------------------------------------------------------------
(* Runs of creations only, under either numbering scheme *)

Customers == {[name |-> "Jane", phone |-> "0771234567"]}
Items == <<[sku |-> "X1", qty |-> 2]>>

CreateRequest ==
    \E c \in Customers, s \in CreateStaff :
        CreateOrder(c.name, c.phone, Items, "cash", s)

NextCreate ==
    \/ Len(auditLog) < MaxAuditCreate /\ CreateRequest
    \/ \E d \in DaySteps : now + d <= StartDay + MaxElapsedCreate /\ Tick(d)

SpecCreate == InitCreate /\ [][NextCreate]_vars

----------------------------------------------------------------------------
(* Runs of the full program *)

Numbers(list) == {list[i].order_number : i \in 1..Len(list)}

\* the order numbers requests name: those of both stores and one in neither
Targets == Numbers(orders) \cup Numbers(deletedOrders) \cup {UnknownOrderNumber}

UpdateStatusRequest ==
    \E n \in Targets, st \in StatusInputs, s \in CreateStaff, inv \in InvoiceInputs :
        UpdateStatus(n, st, s, inv)

AddApprovalRequest == \E n \in Targets, s \in MainStaff : AddApproval(n, s)

SoftDeleteRequest == \E n \in Targets, s \in DeleteStaff : SoftDelete(n, s)

RestoreRequest == \E n \in Targets : Restore(n, Undefined)

PermanentlyDeleteRequest == \E n \in Targets : PermanentlyDelete(n, Undefined)

Budget == Len(auditLog) < MaxAudit

Next ==
    \/ Budget /\ CreateRequest
    \/ Budget /\ UpdateStatusRequest
    \/ Budget /\ AddApprovalRequest
    \/ Budget /\ SoftDeleteRequest
    \/ Budget /\ RestoreRequest
    \/ Budget /\ PermanentlyDeleteRequest
    \/ AutoCleanup
    \/ \E d \in RetentionSteps : now + d <= StartDay + MaxElapsed /\ Tick(d)

Spec == Init /\ [][Next]_vars

----------------------------------------------------------------------------
(* Runs of creations and recycle bin operations *)

BudgetBin == Len(auditLog) < MaxAuditBin

NextBin ==
    \/ BudgetBin /\ CreateRequest
    \/ BudgetBin /\ SoftDeleteRequest
    \/ BudgetBin /\ RestoreRequest
    \/ BudgetBin /\ PermanentlyDeleteRequest
    \/ AutoCleanup
    \/ \E d \in RetentionSteps : now + d <= StartDay + MaxElapsed /\ Tick(d)

SpecBin == Init /\ [][NextBin]_vars

\* the same runs with an exports directory that may stop taking writes
NextExport ==
    \/ NextBin
    \/ \E b \in BOOLEAN : SetExportsWritable(b)

SpecExport == Init /\ [][NextExport]_vars

----------------------------------------------------------------------------
(* Runs of one order's life: status updates, approvals, deletion and restore *)

BudgetRestore == Len(auditLog) < MaxAuditRestore

NextRestore ==
    \/ BudgetRestore /\ Len(orders) + Len(deletedOrders) < MaxOrdersRestore /\ CreateRequest
    \/ BudgetRestore /\ UpdateStatusRequest
    \/ BudgetRestore /\ AddApprovalRequest
    \/ BudgetRestore /\ SoftDeleteRequest
    \/ BudgetRestore /\ RestoreRequest
    \/ \E d \in DaySteps : now + d <= StartDay + MaxElapsedRestore /\ Tick(d)

SpecRestore == Init /\ [][NextRestore]_vars

----------------------------------------------------------------------------
(* Runs of creations, approvals and status updates *)

ApprovalStatusRequest ==
    \E n \in Targets, st \in ApprovalStatusInputs, s \in CreateStaff :
        UpdateStatus(n, st, s, Undefined)

AllStaffApprovalRequest == \E n \in Targets, s \in Staff : AddApproval(n, s)

NextApprovalWithin(budget) ==
    \/ Len(auditLog) < budget /\ Len(orders) < MaxOrdersApproval /\ CreateRequest
    \/ Len(auditLog) < budget /\ ApprovalStatusRequest
    \/ Len(auditLog) < budget /\ AllStaffApprovalRequest

NextApproval == NextApprovalWithin(MaxAuditApproval)

SpecApproval == Init /\ [][NextApproval]_vars

\* longer runs of the same requests
NextPromotion == NextApprovalWithin(MaxAuditPromotion)

SpecPromotion == Init /\ [][NextPromotion]_vars

----------------------------------------------------------------------------
(* Runs of creations, approvals and customer lookups, under either server *)

LookupCustomers == {[name |-> "Jane", phone |-> "0771234567"],
                    [name |-> "Sam", phone |-> "077-555 0199"]}

LookupCreateRequest ==
    \E c \in LookupCustomers, s \in CreateStaff :
        CreateOrder(c.name, c.phone, Items, "cash", s)

CustomerLookupRequest == \E q \in LookupQueries : CustomerLookup(q)

BudgetLookup == Len(auditLog) < MaxAuditLookup

NextLookup ==
    \/ BudgetLookup /\ Len(orders) < MaxOrdersLookup /\ LookupCreateRequest
    \/ BudgetLookup /\ AddApprovalRequest
    \/ BudgetLookup /\ CustomerLookupRequest

SpecLookup == InitCreate /\ [][NextLookup]_vars

----------------------------------------------------------------------------
(* Runs of creations from request bodies that may leave any field out *)

\* the values of req.body's properties: absent, or the one of the scenario
BodyInputs ==
    [customerName : {Undefined, "Jane"}, customerPhone : {Undefined, "0771234567"},
     items : {Undefined, Items}, paymentMethod : {Undefined, "cash"},
     staffName : {Undefined, "staff1"}]

AnyBodyCreateRequest ==
    \E b \in BodyInputs :
        CreateOrder(b.customerName, b.customerPhone, b.items, b.paymentMethod, b.staffName)

NextValidation == Len(orders) < MaxOrdersValidation /\ AnyBodyCreateRequest

SpecValidation == Init /\ [][NextValidation]_vars

----------------------------------------------------------------------------
(* The event loop, with the handlers of PUT /api/orders/:orderNumber/status and
   PUT /api/orders/:orderNumber/approve taken statement by statement: requests
   arrive at any time and wait; a handler is a callback, begun when the call
   stack is empty, and its getOrders, saveOrders and logAudit are synchronous
   calls *)

\* a callback may begin whatever is on the call stack
AnyTime(frames) == TRUE

\* a callback begins only when no callback is running
CallStackEmpty(frames) == frames = <<>>

StepRequests ==
    [op : {"updateStatus"}, orderNumber : Targets, status : ApprovalStatusInputs,
     staffName : CreateStaff]
    \cup [op : {"addApproval"}, orderNumber : Targets, status : {Undefined},
          staffName : MainStaff]

\* the request reaches the server; overlapped: another request was waiting or
\* being handled at that moment
Arrive(request) ==
    /\ queue' = Append(queue, [request |-> request,
                                overlapped |-> queue # <<>> \/ running # <<>>])
    /\ UNCHANGED <<orders, deletedOrders, auditLog, exports, now, exportsWritable,
                   generator, clock, unwritable, unreadable, running, req, res, io>>

\* the event loop calls the handler of the request at the head of the queue
Dispatch ==
    /\ queue # <<>>
    /\ CallStackEmpty(running)
    /\ running' = Append(running, [request |-> Head(queue).request,
                                    overlapped |-> Head(queue).overlapped,
                                    pc |-> "getOrders", read |-> <<>>])
    /\ queue' = Tail(queue)
    /\ UNCHANGED <<orders, deletedOrders, auditLog, exports, now, exportsWritable,
                   generator, clock, unwritable, unreadable, req, res, io>>

\* const orders = getOrders()
HandlerRead(k) ==
    /\ running[k].pc = "getOrders"
    /\ running' = [running EXCEPT ![k].pc = "saveOrders", ![k].read = GetOrders]
    /\ UNCHANGED <<orders, deletedOrders, auditLog, exports, now, exportsWritable,
                   generator, clock, unwritable, unreadable, queue, req, res, io>>

\* the request as req records it
Answered(frame) ==
    [op |-> frame.request.op, at |-> now, orderNumber |-> frame.request.orderNumber,
     body |-> [status |-> frame.request.status, staffName |-> frame.request.staffName],
     overlapped |-> frame.overlapped]

\* an early return with an error status
HandlerReturn(k, status, response) ==
    /\ running' = Splice(running, k)
    /\ req' = Answered(running[k])
    /\ res' = [status |-> status, body |-> response]
    /\ io' = <<>>
    /\ UNCHANGED <<orders, deletedOrders, auditLog, exports, now, exportsWritable,
                   generator, clock, unwritable, unreadable, queue>>

\* from findIndex to saveOrders(orders): the array read, changed in memory, is
\* written whole
HandlerSave(k) ==
    LET frame == running[k]
        request == frame.request
        orderIndex == FindIndex(frame.read, request.orderNumber)
        order == IF request.op = "updateStatus"
                 THEN SetStatus(frame.read[orderIndex], request.status,
                                request.staffName, Undefined)
                 ELSE Approve(frame.read[orderIndex], request.staffName)
    IN  /\ frame.pc = "saveOrders"
        /\ IF orderIndex = 0
           THEN HandlerReturn(k, 404, [error |-> "Order not found"])
           ELSE IF request.op = "addApproval"
                   /\ AlreadyApproved(frame.read[orderIndex], request.staffName)
           THEN HandlerReturn(k, 400,
                              [error |-> "Staff member already approved this order"])
           ELSE IF ~CanWrite(OrdersFile)
           THEN HandlerReturn(k, 500, ServerError.body)
           ELSE /\ orders' = [frame.read EXCEPT ![orderIndex] = order]
                /\ running' = [running EXCEPT ![k].pc = "logAudit",
                                              ![k].read = orders']
                /\ UNCHANGED <<deletedOrders, auditLog, exports, now, exportsWritable,
                               generator, clock, unwritable, unreadable, queue, req, res, io>>

\* logAudit(...) and res.json(...)
HandlerLog(k) ==
    LET frame == running[k]
        request == frame.request
        order == frame.read[FindIndex(frame.read, request.orderNumber)]
    IN  /\ frame.pc = "logAudit"
        /\ auditLog' =
              IF request.op = "updateStatus"
              THEN LogAudit(auditLog, "STATUS_UPDATE", request.orderNumber,
                            request.staffName, "Status: " \o request.status)
              ELSE LogAudit(auditLog, "APPROVAL_ADDED", request.orderNumber,
                            request.staffName,
                            "Approval " \o ToString(Len(order.approvals)) \o "/3")
        /\ running' = Splice(running, k)
        /\ req' = Answered(frame)
        /\ res' = [status |-> 200,
                   body |-> IF request.op = "updateStatus"
                            THEN [success |-> TRUE]
                            ELSE [success |-> TRUE, approvals |-> Len(order.approvals)]]
        /\ io' = <<Wrote("saveOrders", request.orderNumber, TRUE),
                   Wrote("logAudit", request.orderNumber, TRUE)>>
        /\ UNCHANGED <<orders, deletedOrders, exports, now, exportsWritable,
                       generator, clock, unwritable, unreadable, queue>>

BudgetSteps == Len(auditLog) + Len(queue) + Len(running) < MaxAuditSteps

NextSteps ==
    \/ /\ BudgetSteps
       /\ Len(orders) < MaxOrdersSteps
       /\ CallStackEmpty(running)
       /\ CreateRequest
    \/ BudgetSteps /\ \E request \in StepRequests : Arrive(request)
    \/ Dispatch
    \/ \E k \in 1..Len(running) : HandlerRead(k)
    \/ \E k \in 1..Len(running) : HandlerSave(k)
    \/ \E k \in 1..Len(running) : HandlerLog(k)

SpecSteps == Init /\ [][NextSteps]_vars

----------------------------------------------------------------------------
(* Runs of the mutating requests with store files whose read may fail *)

StoreFiles == {OrdersFile, DeletedOrdersFile}

BudgetStorage == Len(auditLog) < MaxAuditStorage

NextStorage ==
    \/ BudgetStorage /\ CreateRequest
    \/ BudgetStorage /\ ApprovalStatusRequest
    \/ BudgetStorage /\ AddApprovalRequest
    \/ BudgetStorage /\ SoftDeleteRequest
    \/ BudgetStorage /\ RestoreRequest
    \/ \E file \in StoreFiles, b \in BOOLEAN : SetUnreadable(file, b)

SpecStorage == Init /\ [][NextStorage]_vars

----------------------------------------------------------------------------
(* Runs of one order's life, with approvals by every staff member *)

BudgetHistory == Len(auditLog) < MaxAuditHistory

NextHistory ==
    \/ /\ BudgetHistory
       /\ Len(orders) + Len(deletedOrders) < MaxOrdersHistory
       /\ CreateRequest
    \/ BudgetHistory /\ ApprovalStatusRequest
    \/ BudgetHistory /\ AllStaffApprovalRequest
    \/ BudgetHistory /\ \E n \in Targets : SoftDelete(n, Undefined)
    \/ BudgetHistory /\ RestoreRequest

SpecHistory == Init /\ [][NextHistory]_vars

----------------------------------------------------------------------------
(* Runs of the recycle bin under the cleanup scheduler: the cleanup runs when
   the process starts and when a poll reads 2:00 *)

BudgetPoll == Len(auditLog) < MaxAuditPoll /\ now <= StartDay + MaxElapsedRequests

PollRequest == \E late \in Lateness : Poll(late)

\* a poll that reads 2:00
CleanupPoll ==
    \E late \in Lateness :
        Poll(late) /\ IsCleanupTime(GetHours(clock'), GetMinutes(clock'))

\* the process is started again on the files it left: initializeFiles() finds
\* them, autoCleanupDeletedOrders() runs before the server listens
Start == AutoCleanup

NextPoll ==
    \/ Start
    \/ BudgetPoll /\ CreateRequest
    \/ BudgetPoll /\ \E n \in Numbers(orders) : SoftDelete(n, Undefined)
    \/ BudgetPoll /\ \E n \in Numbers(deletedOrders) : Restore(n, Undefined)
    \/ BudgetPoll /\ \E n \in Numbers(deletedOrders) : PermanentlyDelete(n, Undefined)
    \/ PollRequest

SpecPoll == Init /\ [][NextPoll]_vars

\* the timer keeps firing, and its lateness does not make it miss 2:00 on
\* every day there is
SpecPollFair == SpecPoll /\ WF_vars(PollRequest) /\ SF_vars(CleanupPoll)

----------------------------------------------------------------------------
(* Runs of creations, deletions and restores with store files whose write may
   fail *)

\* orders held by the Order Store (a restore whose second write fails leaves
\* the order in both stores, and may be repeated)
BudgetWrites == Len(auditLog) < MaxAuditWrites /\ Len(orders) < MaxOrdersWrites

NextWrites ==
    \/ BudgetWrites /\ CreateRequest
    \/ BudgetWrites /\ \E n \in Targets : SoftDelete(n, Undefined)
    \/ BudgetWrites /\ RestoreRequest
    \/ \E file \in StoreFiles, b \in BOOLEAN : SetUnwritable(file, b)

SpecWrites == Init /\ [][NextWrites]_vars

----------------------------------------------------------------------------
(* Properties *)

Distinct(list) ==
    \A i, j \in 1..Len(list) : i # j => list[i].order_number # list[j].order_number

HasNumber(list, n) == \E i \in 1..Len(list) : list[i].order_number = n

\* C1: after any sequence of createOrder operations alone, from an empty Order
\* Store, the orders of the Order Store have pairwise distinct order numbers,
\* under the sequential and under the date-coded numbering.
C1_UniqueAfterCreates == Distinct(orders)

\* C1 witness: date-coded numbers where the count of today's orders took in an
\* order of another day (31 October's WHS-3110-01 starts with 3 November's
\* WHS-311), next to a second order of the same day.
C1_Witness ==
    /\ generator = "dated"
    /\ HasNumber(orders, "WHS-3110-01")
    /\ HasNumber(orders, "WHS-3110-02")
    /\ HasNumber(orders, "WHS-311-03")

\* C2: in every reachable state, under createOrder, softDelete, restore,
\* permanentlyDelete and autoCleanup, no two orders of the Order Store share
\* an order number.
C2_UniqueInOrderStore == Distinct(orders)

\* C3: in every reachable state no order number is in the Order Store and in
\* the Recycle Bin Store at once.
C3_NeverInBothStores == Numbers(orders) \cap Numbers(deletedOrders) = {}

\* the order has an approval by staffName
ApprovedBy(order, staffName) ==
    \E k \in 1..Len(order.approvals) : order.approvals[k].staff = staffName

\* C4: for every order of the Order Store, whatever its status, softDelete
\* followed at once by restore of the same order number gives back an order
\* equal, field by field, to the one before the softDelete (status, approvals
\* and status history included) and without deleted_at, deleted_by and
\* original_status.
C4_DeleteThenRestoreIsIdentity ==
    [][\A n \in Targets, s \in DeleteStaff :
          (/\ req.op = "softDelete"
           /\ req.orderNumber = n
           /\ res.status = 200
           /\ Restore(n, s))
          => /\ orders' # <<>>
             /\ orders'[Len(orders')] = req.found
             /\ DOMAIN orders'[Len(orders')] \cap DeletionFields = {}]_vars

\* C5: addApproval by a staff member without an approval on the order adds
\* exactly one approval and returns the new count; addApproval by a staff
\* member with an approval on the order is rejected and leaves the orders
\* (approvals, status, status history) and the audit log as they were.
C5_ApprovalCountsOncePerStaff ==
    [][\A n \in Targets, s \in Staff :
          (HasNumber(orders, n) /\ AddApproval(n, s))
          => LET i == FindIndex(orders, n)
             IN  IF ApprovedBy(orders[i], s)
                 THEN /\ res'.status = 400
                      /\ orders' = orders
                      /\ auditLog' = auditLog
                      /\ io' = <<>>
                 ELSE /\ res'.status = 200
                      /\ Len(orders'[i].approvals) = Len(orders[i].approvals) + 1
                      /\ res'.body.approvals = Len(orders[i].approvals) + 1
                      /\ ApprovedBy(orders'[i], s)]_vars

\* C5 witness: a repeated approval was just rejected on an order that three
\* other approvals have promoted.
C5_Witness ==
    /\ req.op = "addApproval"
    /\ res.status = 400
    /\ \E i \in 1..Len(orders) :
          /\ orders[i].order_number = req.orderNumber
          /\ Len(orders[i].approvals) >= ApprovalsNeeded
          /\ orders[i].status = "approved"

\* C6: the promotion by approvals happens once per order: the approval that
\* brings the count to exactly 3 while the status is received sets the status
\* to approved and appends one SYSTEM entry to the history, and a later
\* approval (the 4th and beyond) changes neither the status nor the history.
C6_PromotedExactlyOnce ==
    [][\A n \in Targets, s \in Staff :
          (/\ HasNumber(orders, n)
           /\ ~ApprovedBy(orders[FindIndex(orders, n)], s)
           /\ AddApproval(n, s))
          => LET i == FindIndex(orders, n)
                 before == orders[i]
                 after == orders'[i]
             IN  /\ (Len(before.approvals) + 1 = ApprovalsNeeded /\ before.status = "received")
                      => /\ after.status = "approved"
                         /\ Len(after.status_history) = Len(before.status_history) + 1
                         /\ after.status_history[Len(after.status_history)].staff = "SYSTEM"
                 /\ Len(before.approvals) + 1 > ApprovalsNeeded
                      => /\ after.status = before.status
                         /\ after.status_history = before.status_history]_vars

\* the age of a recycle bin entry, in days
Age(entry) == now - entry.deleted_at

\* the places in the Recycle Bin Store of the entries at least 7 days old
Expired == {i \in 1..Len(deletedOrders) : Age(deletedOrders[i]) >= RetentionDays}

\* the Recycle Bin Store without those entries
Unexpired == SelectSeq(deletedOrders, LAMBDA entry : Age(entry) < RetentionDays)

\* how many of the expired entries carry order number n
ExpiredWith(n) == Cardinality({i \in Expired : deletedOrders[i].order_number = n})

\* C7: autoCleanup removes from the Recycle Bin Store exactly the entries at
\* least 7 days old and keeps every younger entry; each removed entry is
\* exported once and gets one AUTO_CLEANUP audit record of staff SYSTEM.
C7_CleanupPurgesExactlyExpired ==
    [][AutoCleanup
       => /\ deletedOrders' = Unexpired
          /\ Len(auditLog') = Len(auditLog) + Cardinality(Expired)
          /\ SubSeq(auditLog', 1, Len(auditLog)) = auditLog
          /\ \A n \in Numbers(deletedOrders) :
                /\ Cardinality({k \in 1..Len(io') :
                        /\ io'[k].call = "exportOrderData"
                        /\ io'[k].key = n
                        /\ io'[k].ok}) = ExpiredWith(n)
                /\ Cardinality({k \in (Len(auditLog) + 1)..Len(auditLog') :
                        /\ auditLog'[k].action = "AUTO_CLEANUP"
                        /\ auditLog'[k].order_id = n
                        /\ auditLog'[k].staff_name = "SYSTEM"}) = ExpiredWith(n)
          /\ \A i \in Expired :
                \E f \in exports' :
                    /\ f.data.order_number = deletedOrders[i].order_number
                    /\ f.data.exported_at = now]_vars

\* C7 witness: a cleanup has just purged an entry exactly 7 days old and kept
\* a younger one.
C7_Witness ==
    /\ req.op = "autoCleanup"
    /\ req.at = now
    /\ deletedOrders # <<>>
    /\ \E k \in 1..Len(io) : io[k].call = "exportOrderData"
    /\ \E f \in exports :
          /\ f.data.exported_at = now
          /\ f.data.deleted_at = now - RetentionDays

\* C8: autoCleanup is idempotent: after a run the entries it purges are gone
\* from the Recycle Bin Store, and a second run right after it writes no
\* export, appends no audit record and leaves the Recycle Bin Store as it is.
C8_CleanupIdempotent ==
    [][/\ AutoCleanup
          => \A i \in 1..Len(deletedOrders') : Age(deletedOrders'[i]) < RetentionDays
       /\ (req.op = "autoCleanup" /\ req.at = now /\ AutoCleanup)
          => /\ deletedOrders' = deletedOrders
             /\ exports' = exports
             /\ auditLog' = auditLog
             /\ io' = <<>>]_vars

\* C8 witness: a cleanup has just purged entries, and the clock has not moved
\* since.
C8_Witness ==
    /\ req.op = "autoCleanup"
    /\ req.at = now
    /\ \E k \in 1..Len(io) : io[k].call = "saveDeletedOrders"
    /\ Len(auditLog) > 0
    /\ auditLog[Len(auditLog)].action = "AUTO_CLEANUP"

\* the place of the first write of that call among the handler's writes (0: none)
FirstWrite(writes, call) ==
    IF \E k \in 1..Len(writes) : writes[k].call = call
    THEN CHOOSE k \in 1..Len(writes) :
            /\ writes[k].call = call
            /\ \A j \in 1..(k - 1) : writes[j].call # call
    ELSE 0

\* C9: permanentlyDelete of an order of the Recycle Bin Store attempts the
\* export before it rewrites the Recycle Bin Store without the order; when the
\* export fails the deletion still completes (the order leaves the bin, one
\* audit record is appended) and the export reference returned is null.
C9_ExportFirstAndNotFatal ==
    [][\A n \in Targets :
          (HasNumber(deletedOrders, n) /\ PermanentlyDelete(n, Undefined))
          => /\ FirstWrite(io', "exportOrderData") > 0
             /\ FirstWrite(io', "exportOrderData") < FirstWrite(io', "saveDeletedOrders")
             /\ deletedOrders' = Splice(deletedOrders, FindIndex(deletedOrders, n))
             /\ Len(auditLog') = Len(auditLog) + 1
             /\ auditLog'[Len(auditLog')].action = "ORDER_PERMANENTLY_DELETED"
             /\ res'.status = 200
             /\ exportsWritable
                  => /\ res'.body.exportedTo # Null
                     /\ \E f \in exports' : f.filename = res'.body.exportedTo
             /\ ~exportsWritable
                  => /\ res'.body.exportedTo = Null
                     /\ exports' = exports]_vars

\* C9 witness: a permanent deletion has just completed although its export failed.
C9_Witness ==
    /\ req.op = "permanentlyDelete"
    /\ res.status = 200
    /\ res.body.exportedTo = Null
    /\ ~exportsWritable
    /\ ~HasNumber(deletedOrders, req.orderNumber)
    /\ auditLog[Len(auditLog)].action = "ORDER_PERMANENTLY_DELETED"

\* the stores, the exports directory and the audit log stay as they are
StoresUnchanged ==
    /\ orders' = orders
    /\ deletedOrders' = deletedOrders
    /\ exports' = exports
    /\ auditLog' = auditLog

\* C10: updateStatus, addApproval and softDelete of an order number absent
\* from the Order Store, and restore and permanentlyDelete of an order number
\* absent from the Recycle Bin Store, end not-found (404) and leave the Order
\* Store, the Recycle Bin Store, the exports directory and the audit log
\* unchanged.
C10_NotFoundChangesNothing ==
    [][\A n \in Targets :
          /\ (/\ ~HasNumber(orders, n)
              /\ \/ \E st \in StatusInputs, s \in CreateStaff, inv \in InvoiceInputs :
                       UpdateStatus(n, st, s, inv)
                 \/ \E s \in MainStaff : AddApproval(n, s)
                 \/ \E s \in DeleteStaff : SoftDelete(n, s))
             => (res'.status = 404 /\ StoresUnchanged)
          /\ (/\ ~HasNumber(deletedOrders, n)
              /\ \/ Restore(n, Undefined)
                 \/ PermanentlyDelete(n, Undefined))
             => (res'.status = 404 /\ StoresUnchanged)]_vars

\* C10 witness: a restore has just ended not-found for an order that is in the
\* Order Store and not in the Recycle Bin Store.
C10_Witness ==
    /\ req.op = "restore"
    /\ res.status = 404
    /\ HasNumber(orders, req.orderNumber)
    /\ ~HasNumber(deletedOrders, req.orderNumber)
    /\ io = <<>>

\* the queries of the searches the properties go through
SearchQueries == {Undefined, "Jane", "whs", "0771"}
SearchStatuses == {Undefined, "all", "received"}

\* the customer lookup by q answers with an order
LookupFound(q) == Lookup(q).res.status = 200 /\ Lookup(q).res.body.found

\* some read returns an order numbered n: listOrders, getOrder, searchOrders
\* or the customer lookup
Shown(n) ==
    \/ HasNumber(ListOrders.body, n)
    \/ GetOrder(n).status = 200
    \/ \E q \in SearchQueries, st \in SearchStatuses :
          /\ SearchOrders(q, st).status = 200
          /\ HasNumber(SearchOrders(q, st).body, n)
    \/ \E q \in LookupQueries :
          /\ LookupFound(q)
          /\ Lookup(q).res.body.order.order_number = n

\* C11: a successful softDelete removes the order from the Order Store and
\* appends it to the Recycle Bin Store with deleted_by the deleting staff and
\* original_status the status it had; it returns the new size of the Recycle
\* Bin Store (the previous size plus 1); and an order of the Recycle Bin Store
\* is returned by no read (listOrders, getOrder, searchOrders, customer
\* lookup) until it is restored.
C11_SoftDeleteMovesAndHides ==
    /\ [][\A n \in Targets, s \in DeleteStaff :
             (HasNumber(orders, n) /\ SoftDelete(n, s))
             => LET i == FindIndex(orders, n)
                    entry == deletedOrders'[Len(deletedOrders')]
                IN  /\ orders' = Splice(orders, i)
                    /\ deletedOrders' = Append(deletedOrders, entry)
                    /\ entry.order_number = n
                    /\ entry.deleted_by = (IF s = Undefined THEN "manager" ELSE s)
                    /\ entry.original_status = orders[i].status
                    /\ entry.deleted_at = now
                    /\ res'.status = 200
                    /\ res'.body.recycleBinCount = Len(deletedOrders) + 1]_vars
    /\ [](\A n \in Numbers(deletedOrders) : ~Shown(n))

\* a non-empty piece of the phone number
Fragment(phone, q) == Len(q) > 0 /\ Includes(phone, q)

\* the query is the order's number, whatever the case, or a fragment of its
\* phone number, as typed or with the non-digits of both taken out
NumberOrPhoneFragment(order, q) ==
    \/ ToLowerCase(order.order_number) = ToLowerCase(q)
    \/ Fragment(order.customer_phone, q)
    \/ Fragment(StripNonDigits(order.customer_phone), StripNonDigits(q))

\* the non-empty queries without blanks around them
TypedQueries == {q \in LookupQueries \ {Undefined} : Len(q) > 0 /\ Trim(q) = q}

\* C12: the customer lookup returns an order as found only when the query is
\* that order's number (in any case) or a fragment of that order's phone
\* number (as typed, or after the non-digits of both are taken out); a
\* non-empty query that is no order's number and no fragment of any order's
\* phone number ends not-found.
C12_LookupMatchesNumberOrPhone ==
    \A q \in TypedQueries :
        /\ LookupFound(q)
              => NumberOrPhoneFragment(orders[Lookup(q).matched], q)
        /\ (\A i \in 1..Len(orders) : ~NumberOrPhoneFragment(orders[i], q))
              => ~LookupFound(q)

\* the entries of a list of the view that name a staff member
NamesStaff(view, f) ==
    f \in DOMAIN view /\ \E k \in 1..Len(view[f]) : "staff" \in DOMAIN view[f][k]

\* C13: the order of a customer lookup's response has no deletion metadata
\* (deleted_at, deleted_by, original_status) and no internal audit field:
\* no created_by, and no staff identity in its approvals or status history.
C13_LookupViewIsPublicSafe ==
    \A q \in LookupQueries :
        LookupFound(q)
        => LET view == Lookup(q).res.body.order
           IN  /\ DOMAIN view \cap DeletionFields = {}
               /\ "created_by" \notin DOMAIN view
               /\ ~NamesStaff(view, "approvals")
               /\ ~NamesStaff(view, "status_history")

\* the order number the first order gets under the date-coded numbering
FirstOfToday ==
    "WHS-" \o ToString(Today.day) \o PadStart(ToString(Today.month), MonthPad) \o "-01"

C15_CreateValidatesRequiredFields ==
    [][\A b \in BodyInputs :
          (/\ \E f \in DOMAIN b : b[f] = Undefined
           /\ CreateOrder(b.customerName, b.customerPhone, b.items, b.paymentMethod,
                          b.staffName))
          => /\ res'.status = 400
             /\ orders' = orders
             /\ auditLog' = auditLog]_vars

\* how many audit records of that action name the order number
Logged(action, n) ==
    Cardinality({k \in 1..Len(auditLog) :
                    auditLog[k].action = action /\ auditLog[k].order_id = n})

\* an update that was answered with success is missing from the Order Store:
\* the order has fewer approvals, or fewer history entries, than the audit log
\* has records of
LostUpdate ==
    \E i \in 1..Len(orders) :
        LET n == orders[i].order_number
        IN  \/ Len(orders[i].approvals) < Logged("APPROVAL_ADDED", n)
            \/ Len(orders[i].status_history) < 1 + Logged("STATUS_UPDATE", n)

\* C16, as the code has it: two mutating operations issued at the same time
\* are handled one after the other. At most one handler has begun and not
\* returned, the array it rewrites the Order Store from is the store's content
\* at that moment, and no update answered with success is lost.
C16_HandlersRunToCompletion ==
    /\ Len(running) <= 1
    /\ \A k \in 1..Len(running) :
          running[k].pc = "saveOrders" => running[k].read = GetOrders
    /\ ~LostUpdate

\* C16 witness: a request that arrived while another was waiting or being
\* handled has just been answered with success, and the order carries the
\* approvals of both.
C16_Witness ==
    /\ req.op = "addApproval"
    /\ "overlapped" \in DOMAIN req
    /\ req.overlapped
    /\ res.status = 200
    /\ res.body.approvals = 2
    /\ \E i \in 1..Len(orders) :
          /\ orders[i].order_number = req.orderNumber
          /\ ApprovedBy(orders[i], "staff1")
          /\ ApprovedBy(orders[i], "manager")

\* C16, as claimed: two mutating operations issued at the same time can
\* interleave their read and write steps: while one handler has read the
\* Order Store and not yet rewritten it, the handler of a waiting request can
\* begin (and read the same content, so that the later rewrite discards the
\* earlier update).
C16_MutationsInterleave ==
    (/\ queue # <<>>
     /\ \E k \in 1..Len(running) : running[k].pc = "saveOrders")
    => ENABLED Dispatch

\* the response is a storage error and both stores hold what they held
StorageErrorOutcome ==
    /\ res'.status = 500
    /\ orders' = orders
    /\ deletedOrders' = deletedOrders

\* C17: when the read of a store fails, a mutating operation that reads it
\* (createOrder, updateStatus, addApproval and softDelete read the Order
\* Store; restore reads the Recycle Bin Store; softDelete and restore of an
\* order they found read the other store too) ends with a storage error and
\* leaves both stores as they were: it never goes on as if the store were
\* empty and rewrites it.
C17_ReadFailureIsAnError ==
    [][/\ (OrdersFile \in unreadable
           /\ \/ CreateRequest
              \/ ApprovalStatusRequest
              \/ AddApprovalRequest
              \/ SoftDeleteRequest)
          => StorageErrorOutcome
       /\ (DeletedOrdersFile \in unreadable /\ RestoreRequest)
          => StorageErrorOutcome
       /\ \A n \in Numbers(deletedOrders) :
             (OrdersFile \in unreadable /\ Restore(n, Undefined))
             => StorageErrorOutcome
       /\ \A n \in Numbers(orders), s \in DeleteStaff :
             (DeletedOrdersFile \in unreadable /\ SoftDelete(n, s))
             => StorageErrorOutcome]_vars

\* the step appends one audit record, of that action and naming order number n
AppendsOne(action, n) ==
    /\ Len(auditLog') = Len(auditLog) + 1
    /\ auditLog'[Len(auditLog')].action = action
    /\ auditLog'[Len(auditLog')].order_id = n

\* C18: every successful store mutation (createOrder, updateStatus,
\* addApproval, softDelete, restore, permanentlyDelete) appends exactly one
\* audit record naming the order number it is about, and the audit log is
\* append-only: in every step (autoCleanup's included) the log before is a
\* prefix of the log after.
C18_OneAuditRecordPerMutation ==
    [][/\ Len(auditLog') >= Len(auditLog)
       /\ SubSeq(auditLog', 1, Len(auditLog)) = auditLog
       /\ (res'.status = 200 /\ req'.op = "createOrder" /\ CreateRequest)
             => AppendsOne("ORDER_CREATED", res'.body.order_number)
       /\ \A n \in Targets :
             /\ (/\ res'.status = 200
                 /\ req'.op = "updateStatus"
                 /\ \E st \in StatusInputs, s \in CreateStaff, inv \in InvoiceInputs :
                       UpdateStatus(n, st, s, inv))
                   => AppendsOne("STATUS_UPDATE", n)
             /\ (/\ res'.status = 200
                 /\ req'.op = "addApproval"
                 /\ \E s \in MainStaff : AddApproval(n, s))
                   => AppendsOne("APPROVAL_ADDED", n)
             /\ (/\ res'.status = 200
                 /\ req'.op = "softDelete"
                 /\ \E s \in DeleteStaff : SoftDelete(n, s))
                   => AppendsOne("ORDER_MOVED_TO_RECYCLE", n)
             /\ (res'.status = 200 /\ req'.op = "restore" /\ Restore(n, Undefined))
                   => AppendsOne("ORDER_RESTORED", n)
             /\ (/\ res'.status = 200
                 /\ req'.op = "permanentlyDelete"
                 /\ PermanentlyDelete(n, Undefined))
                   => AppendsOne("ORDER_PERMANENTLY_DELETED", n)]_vars

\* C18 witness: a permanent deletion has just succeeded as the third mutation
\* of its order, and the log holds the three records in the order they were
\* written.
C18_Witness ==
    /\ req.op = "permanentlyDelete"
    /\ res.status = 200
    /\ Len(auditLog) = 3
    /\ auditLog[1].action = "ORDER_CREATED"
    /\ auditLog[2].action = "ORDER_MOVED_TO_RECYCLE"
    /\ auditLog[3].action = "ORDER_PERMANENTLY_DELETED"
    /\ \A k \in 1..3 : auditLog[k].order_id = req.orderNumber

\* C19: updateStatus of an order of the Order Store sets its status to the
\* value given, whatever the status it has and whatever the value; it appends
\* one status history entry with that status and the acting staff; it changes
\* the invoice number only when one is given; it leaves the approvals (and
\* every other order) as they were.
C19_UpdateStatusIsUnconditional ==
    [][\A n \in Targets, st \in StatusInputs, s \in CreateStaff, inv \in InvoiceInputs :
          (HasNumber(orders, n) /\ UpdateStatus(n, st, s, inv))
          => LET i == FindIndex(orders, n)
                 before == orders[i]
                 after == orders'[i]
             IN  /\ res'.status = 200
                 /\ Len(orders') = Len(orders)
                 /\ \A j \in 1..Len(orders) : j # i => orders'[j] = orders[j]
                 /\ after.status = st
                 /\ after.status_history =
                       Append(before.status_history,
                              [status |-> st, timestamp |-> now, staff |-> s])
                 /\ after.invoice_number =
                       (IF inv = Undefined THEN before.invoice_number ELSE inv)
                 /\ after.approvals = before.approvals
                 /\ after.order_number = n]_vars

\* C19 witness: an order with an approval and an invoice number was packed and
\* has just been set back to received by an update that gave no invoice number.
C19_Witness ==
    /\ req.op = "updateStatus"
    /\ res.status = 200
    /\ req.body.status = "received"
    /\ req.body.invoiceNumber = Undefined
    /\ \E i \in 1..Len(orders) :
          /\ orders[i].order_number = req.orderNumber
          /\ orders[i].status = "received"
          /\ orders[i].invoice_number = "INV-7"
          /\ Len(orders[i].status_history) = 3
          /\ orders[i].status_history[2].status = "packed"

\* the sequence a is the beginning of the sequence b
IsPrefix(a, b) == Len(a) <= Len(b) /\ SubSeq(b, 1, Len(a)) = a

\* the order at place i of the Order Store keeps its history as a prefix, and
\* no other order of either store changes
OnlyExtends(i) ==
    /\ Len(orders') = Len(orders)
    /\ IsPrefix(orders[i].status_history, orders'[i].status_history)
    /\ \A j \in 1..Len(orders) : j # i => orders'[j] = orders[j]
    /\ deletedOrders' = deletedOrders

\* C20: the status history of an order is append-only through its life: under
\* updateStatus, addApproval, softDelete and restore the history before is a
\* prefix of the history after (updateStatus and a promoting approval add one
\* entry, the moves between the stores carry the history over as it is), and
\* the histories of the other orders of both stores stay as they are.
C20_HistoryIsAppendOnly ==
    [][\A n \in Targets :
          /\ (/\ HasNumber(orders, n)
              /\ req'.op = "updateStatus"
              /\ \E st \in ApprovalStatusInputs, s \in CreateStaff :
                    UpdateStatus(n, st, s, Undefined))
                => /\ OnlyExtends(FindIndex(orders, n))
                   /\ Len(orders'[FindIndex(orders, n)].status_history)
                         = Len(orders[FindIndex(orders, n)].status_history) + 1
          /\ (/\ HasNumber(orders, n)
              /\ req'.op = "addApproval"
              /\ \E s \in Staff : AddApproval(n, s))
                => OnlyExtends(FindIndex(orders, n))
          /\ (/\ HasNumber(orders, n)
              /\ req'.op = "softDelete"
              /\ SoftDelete(n, Undefined))
                => /\ orders' = Splice(orders, FindIndex(orders, n))
                   /\ SubSeq(deletedOrders', 1, Len(deletedOrders)) = deletedOrders
                   /\ Len(deletedOrders') = Len(deletedOrders) + 1
                   /\ deletedOrders'[Len(deletedOrders')].status_history
                         = orders[FindIndex(orders, n)].status_history
          /\ (/\ HasNumber(deletedOrders, n)
              /\ req'.op = "restore"
              /\ Restore(n, Undefined))
                => /\ deletedOrders' = Splice(deletedOrders, FindIndex(deletedOrders, n))
                   /\ SubSeq(orders', 1, Len(orders)) = orders
                   /\ Len(orders') = Len(orders) + 1
                   /\ orders'[Len(orders')].status_history
                         = deletedOrders[FindIndex(deletedOrders, n)].status_history]_vars

\* C20 witness: an order that three approvals promoted has just been moved to
\* the Recycle Bin Store with its two history entries, the creating staff's
\* and SYSTEM's.
C20_Witness ==
    /\ req.op = "softDelete"
    /\ res.status = 200
    /\ deletedOrders # <<>>
    /\ LET entry == deletedOrders[Len(deletedOrders)]
       IN  /\ entry.order_number = req.orderNumber
           /\ Len(entry.status_history) = 2
           /\ entry.status_history[1].staff = "staff1"
           /\ entry.status_history[2].staff = "SYSTEM"
           /\ entry.original_status = "approved"

\* the last entry of the order's status history
LastHistory(order) == order.status_history[Len(order.status_history)]

\* C21: in every reachable state the status of every order of the Order Store
\* is the status of the last entry of its status history, under createOrder,
\* updateStatus, addApproval, softDelete and restore.
C21_StatusIsLastHistoryEntry ==
    \A i \in 1..Len(orders) :
        /\ orders[i].status_history # <<>>
        /\ orders[i].status = LastHistory(orders[i]).status

\* no two approval records of the order name the same staff member
UniqueApprovers(order) ==
    \A i, j \in 1..Len(order.approvals) :
        i # j => order.approvals[i].staff # order.approvals[j].staff

\* C22: in every reachable state no order, of the Order Store or of the
\* Recycle Bin Store, has two approval records of the same staff member, under
\* addApproval, updateStatus, softDelete and restore.
C22_ApproversAreDistinct ==
    /\ \A i \in 1..Len(orders) : UniqueApprovers(orders[i])
    /\ \A i \in 1..Len(deletedOrders) : UniqueApprovers(deletedOrders[i])

\* C22 witness: a staff member who approved the order before it was moved to
\* the Recycle Bin Store and restored approves it again and is rejected; the
\* restored order still has that one approval of theirs.
C22_Witness ==
    /\ req.op = "addApproval"
    /\ res.status = 400
    /\ Logged("ORDER_RESTORED", req.orderNumber) = 1
    /\ \E i \in 1..Len(orders) :
          /\ orders[i].order_number = req.orderNumber
          /\ ApprovedBy(orders[i], req.body.staffName)
          /\ UniqueApprovers(orders[i])

\* the step ran the cleanup: it is the last request, and the request, the
\* audit log or the Recycle Bin Store is not what it was
CleanupRan ==
    /\ req'.op = "autoCleanup"
    /\ req' # req \/ auditLog' # auditLog \/ deletedOrders' # deletedOrders

\* the step is a poll: the time of day moved on
Polled == clock' # clock

TextQueries == {Undefined, "", "jane", "WHS-00", "077-555", "0775550199", "999"}
StatusFilters == {Undefined, "all", "received", "approved"}

\* the query occurs in the name or in the order number, whatever the case, or
\* in the phone number, as typed or with the non-digits of both taken out
TextFilter(order, q) ==
    \/ Includes(ToLowerCase(order.customer_name), ToLowerCase(q))
    \/ Includes(ToLowerCase(order.order_number), ToLowerCase(q))
    \/ Includes(order.customer_phone, q)
    \/ Fragment(StripNonDigits(order.customer_phone), StripNonDigits(q))

\* the orders of the Order Store that pass the text filter and the status filter
Filtered(q, status) ==
    SelectSeq(orders,
              LAMBDA order :
                  /\ (q \in {Undefined, ""} \/ TextFilter(order, q))
                  /\ (status \in {Undefined, "all"} \/ order.status = status))

\* C24: searchOrders returns exactly the orders of the Order Store that pass
\* both filters: the query occurs, whatever the case, in the customer name or
\* the order number, or in the phone number directly or after the non-digits
\* of phone and query are taken out; the status is the one given, and a status
\* of 'all' or none filters nothing.
C24_SearchReturnsTheFilteredOrders ==
    \A q \in TextQueries, status \in StatusFilters :
        /\ SearchOrders(q, status).status = 200
        /\ SearchOrders(q, status).body = Filtered(q, status)

\* how many orders of the list carry order number n
Copies(list, n) == Cardinality({i \in 1..Len(list) : list[i].order_number = n})

\* the handler's first store rewrite succeeded and its second one threw
PartWayFailure(n) ==
    io' = <<Wrote("saveOrders", n, TRUE), Wrote("saveDeletedOrders", n, FALSE)>>

\* C25: when a softDelete or a restore of an order held once, by one store,
\* fails part-way (one of its two store rewrites succeeds, the other does
\* not), the order is afterwards in exactly one of the Order Store and the
\* Recycle Bin Store: not lost from both, not in both.
C25_PartialWriteKeepsOneCopy ==
    [][\A n \in Targets :
          (/\ Copies(orders, n) + Copies(deletedOrders, n) = 1
           /\ PartWayFailure(n)
           /\ SoftDelete(n, Undefined) \/ Restore(n, Undefined))
          => Copies(orders', n) + Copies(deletedOrders', n) = 1]_vars

\* how many audit records have that action
Recorded(action) == Cardinality({k \in 1..Len(auditLog) : auditLog[k].action = action})

\* the orders removed for good, by permanentlyDelete or by the cleanup
Removed == Recorded("ORDER_PERMANENTLY_DELETED") + Recorded("AUTO_CLEANUP")

\* the step changes the sizes of the Order Store and of the Recycle Bin Store
\* by these numbers
Moves(toOrders, toBin) ==
    /\ Len(orders') = Len(orders) + toOrders
    /\ Len(deletedOrders') = Len(deletedOrders) + toBin

\* C26: without I/O failures the orders are conserved: in every reachable
\* state the orders of the Order Store, those of the Recycle Bin Store and
\* those removed by permanentlyDelete or autoCleanup are together as many as
\* the successful createOrder operations; softDelete and restore each move
\* one record from one store to the other, createOrder adds one, a removal
\* drops one from the Recycle Bin Store, and no other step (updateStatus,
\* addApproval, a rejected request, the passage of time) adds or drops one.
C26_OrdersAreConserved ==
    /\ [](Len(orders) + Len(deletedOrders) + Removed = Recorded("ORDER_CREATED"))
    /\ [][IF auditLog' = auditLog
          THEN Moves(0, 0)
          ELSE LET action == auditLog'[Len(auditLog')].action
               IN  CASE action = "ORDER_CREATED" -> Moves(1, 0)
                     [] action = "ORDER_MOVED_TO_RECYCLE" -> Moves(-1, 1)
                     [] action = "ORDER_RESTORED" -> Moves(1, -1)
                     [] action = "ORDER_PERMANENTLY_DELETED" -> Moves(0, -1)
                     [] action = "AUTO_CLEANUP" ->
                           Moves(0, Len(auditLog) - Len(auditLog'))
                     [] OTHER -> Moves(0, 0)]_vars

\* C26 witness: of two orders created, one is in the Order Store and the other
\* went through the Recycle Bin Store and was purged by the cleanup.
C26_Witness ==
    /\ Recorded("ORDER_CREATED") = 2
    /\ Recorded("ORDER_MOVED_TO_RECYCLE") = 1
    /\ Recorded("AUTO_CLEANUP") = 1
    /\ Len(orders) = 1
    /\ deletedOrders = <<>>

====
